---- MODULE Spec2Model ----
(***************************************************************************)
(* Model of the product dashboard of src/src/App.jsx: the product store    *)
(* (productReducer and ProductProvider), the notification queue, the       *)
(* debounced search box, the virtualized product list and the handlers of  *)
(* ProductDashboard.                                                       *)
(*                                                                         *)
(* JavaScript strings are sequences of one-character strings, so that      *)
(* toLowerCase and includes are computed rather than assumed.  Time is the *)
(* reading of Date.now() in milliseconds; a timer set with setTimeout      *)
(* holds its deadline and may run at any moment from the deadline on.      *)
(***************************************************************************)
EXTENDS Integers, Sequences, FiniteSets, TLC

VARIABLES
    state,            \* ProductProvider: the useReducer state
    loadPc,           \* ProductProvider effect: "mount", "waiting", "done"
    loadDeadline,     \* deadline of the setTimeout awaited by fetchProducts
    aborted,          \* abortController.signal.aborted
    now,              \* Date.now()
    notifications,    \* NotificationProvider: the notifications state
    expiryTimers,     \* pending setTimeout callbacks of addNotification
    localSearch,      \* SearchAndFilter: localSearch state
    debounced,        \* useDebounce: debounced state
    debounceTimers,   \* useDebounce: the timers set and neither run nor cleared
    searchDep,        \* debouncedSearch as last seen by SearchAndFilter's effect
    inputAt,          \* Date.now() at the last change of the search input
    visibleRange,     \* VirtualProductList: visibleRange state
    scrollTop,        \* containerRef.current.scrollTop
    clientHeight,     \* containerRef.current.clientHeight
    listDep,          \* products.length as last seen by the list's effect
    editingProduct,   \* ProductDashboard: editingProduct state
    formData          \* ProductEditModal: formData state

vars == <<state, loadPc, loadDeadline, aborted, now, notifications, expiryTimers,
          localSearch, debounced, debounceTimers, searchDep, inputAt, visibleRange,
          scrollTop, clientHeight, listDep, editingProduct, formData>>

storeVars == <<state, loadPc, loadDeadline, aborted>>
notifyVars == <<notifications, expiryTimers>>
searchVars == <<localSearch, debounced, debounceTimers, searchDep, inputAt>>
listVars == <<visibleRange, scrollTop, clientHeight, listDep>>
modalVars == <<editingProduct, formData>>

(***************************************************************************)
(* Bounds of the model.                                                    *)
(***************************************************************************)
\* Date.now() when the application mounts.
Epoch == 100000
\* The specifications of the dashboard's handlers and of the search box follow
\* the clock for this many milliseconds.
DashElapsed == 7000
SearchElapsed == 2000
\* The store's specification follows the clock for this many milliseconds.
StoreElapsed == 2000
\* Number of generated products (1000 in the source, line 147).
MockCount == 52
\* Number of different outcomes of Math.random() considered for the mock data.
NumSeeds == 1
\* ADD_PRODUCT is dispatched at most this many times.
MaxAdds == 2
\* At most this many notifications are queued at once.
MaxNotifications == 2

(***************************************************************************)
(* Program constants.                                                      *)
(***************************************************************************)
LoadDelay == 1000
NotificationDelay == 5000
DebounceDelay == 300
itemHeight == 100
Overscan == 5
InitialEnd == 50

\* JavaScript null.
NULL == [null |-> TRUE]
\* The dependency of an effect that has not run yet.
NoDep == -1
\* The NaN of a JavaScript division of zero by zero.
NaN == -1

(***************************************************************************)
(* Strings.                                                                *)
(***************************************************************************)
Upper == <<"A","B","C","D","E","F","G","H","I","J","K","L","M",
           "N","O","P","Q","R","S","T","U","V","W","X","Y","Z">>
Lower == <<"a","b","c","d","e","f","g","h","i","j","k","l","m",
           "n","o","p","q","r","s","t","u","v","w","x","y","z">>

LowerOf ==
    [c \in {Upper[k] : k \in 1..26} |-> Lower[CHOOSE k \in 1..26 : Upper[k] = c]]

LowerChar(c) == IF c \in DOMAIN LowerOf THEN LowerOf[c] ELSE c

toLowerCase(s) == [k \in 1..Len(s) |-> LowerChar(s[k])]

\* String.prototype.includes; the empty string is included in every string.
includes(s, sub) ==
    \/ Len(sub) = 0
    \/ \E k \in 0..(Len(s) - Len(sub)) : SubSeq(s, k + 1, k + Len(sub)) = sub

Digits == <<"0","1","2","3","4","5","6","7","8","9">>

RECURSIVE NumberToString(_)
NumberToString(n) ==
    IF n < 10 THEN <<Digits[n + 1]>>
    ELSE NumberToString(n \div 10) \o <<Digits[(n % 10) + 1]>>

Electronics == <<"E","l","e","c","t","r","o","n","i","c","s">>
Clothing == <<"C","l","o","t","h","i","n","g">>
Books == <<"B","o","o","k","s">>
Home == <<"H","o","m","e">>
Sports == <<"S","p","o","r","t","s">>
Beauty == <<"B","e","a","u","t","y">>
All == <<"a","l","l">>

categories == <<Electronics, Clothing, Books, Home, Sports, Beauty>>
statuses == <<"active", "inactive", "out-of-stock">>

ProductName(n) == <<"P","r","o","d","u","c","t"," ">> \o NumberToString(n)

(***************************************************************************)
(* Mock data.  Every Math.random() of generateMockProducts is a value      *)
(* derived from the seed and the index; rating, the string produced by     *)
(* toFixed(1), is held in tenths.                                          *)
(***************************************************************************)
MockSeeds == 1..NumSeeds

generateMockProducts(seed) ==
    [i \in 1..MockCount |->
        [id |-> i,
         name |-> ProductName(i),
         category |-> categories[((i + seed) % 6) + 1],
         price |-> (((i * 37) + seed) % 500) + 10,
         stock |-> ((i - 1) * seed) % 100,
         status |-> statuses[((i * seed) % 3) + 1],
         sales |-> ((i * 113) + seed) % 1000,
         rating |-> ((i * 7) + seed) % 51]]

(***************************************************************************)
(* The reducer.                                                            *)
(***************************************************************************)
initialState ==
    [products |-> <<>>, loading |-> TRUE, filter |-> All,
     searchTerm |-> <<>>, error |-> NULL]

WithId(p, newId) ==
    [id |-> newId, name |-> p.name, category |-> p.category, price |-> p.price,
     stock |-> p.stock, status |-> p.status, sales |-> p.sales, rating |-> p.rating]

SET_PRODUCTS(s, payload) == [s EXCEPT !.products = payload, !.loading = FALSE]

SET_LOADING(s, payload) == [s EXCEPT !.loading = payload]

\* A variant that also clears the search term when the category changes.
SET_FILTER_reset(s, payload) ==
    [s EXCEPT !.filter = payload, !.searchTerm = <<>>]

SET_FILTER(s, payload) == [s EXCEPT !.filter = payload]

SET_SEARCH(s, payload) == [s EXCEPT !.searchTerm = payload]

ADD_PRODUCT(s, payload) ==
    [s EXCEPT !.products = Append(s.products, WithId(payload, now))]

\* A variant that appends the payload when no entry has its identifier.
UPDATE_PRODUCT_upsert(s, payload) ==
    IF \E k \in 1..Len(s.products) : s.products[k].id = payload.id
    THEN [s EXCEPT !.products =
            [k \in 1..Len(s.products) |->
                IF s.products[k].id = payload.id THEN payload ELSE s.products[k]]]
    ELSE [s EXCEPT !.products = Append(s.products, payload)]

UPDATE_PRODUCT(s, payload) ==
    [s EXCEPT !.products =
        [k \in 1..Len(s.products) |->
            IF s.products[k].id = payload.id THEN payload ELSE s.products[k]]]

\* A variant that removes only the first entry that has the identifier.
DELETE_PRODUCT_first(s, payload) ==
    LET hits == {k \in 1..Len(s.products) : s.products[k].id = payload}
        first == CHOOSE k \in hits : \A j \in hits : k <= j
    IN  IF hits = {} THEN s
        ELSE [s EXCEPT !.products =
                SubSeq(s.products, 1, first - 1)
                    \o SubSeq(s.products, first + 1, Len(s.products))]

DELETE_PRODUCT(s, payload) ==
    [s EXCEPT !.products = SelectSeq(s.products, LAMBDA p : p.id # payload)]

SET_ERROR(s, payload) == [s EXCEPT !.error = payload, !.loading = FALSE]

productReducer(s, action) ==
    CASE action.type = "SET_PRODUCTS" -> SET_PRODUCTS(s, action.payload)
      [] action.type = "SET_LOADING" -> SET_LOADING(s, action.payload)
      [] action.type = "SET_FILTER" -> SET_FILTER(s, action.payload)
      [] action.type = "SET_SEARCH" -> SET_SEARCH(s, action.payload)
      [] action.type = "ADD_PRODUCT" -> ADD_PRODUCT(s, action.payload)
      [] action.type = "UPDATE_PRODUCT" -> UPDATE_PRODUCT(s, action.payload)
      [] action.type = "DELETE_PRODUCT" -> DELETE_PRODUCT(s, action.payload)
      [] action.type = "SET_ERROR" -> SET_ERROR(s, action.payload)
      [] OTHER -> s

Action(type, payload) == [type |-> type, payload |-> payload]

(***************************************************************************)
(* Initial state: the tree is rendered, no effect has run yet.             *)
(***************************************************************************)
Init ==
    /\ state = initialState
    /\ loadPc = "mount"
    /\ loadDeadline = 0
    /\ aborted = FALSE
    /\ now = Epoch
    /\ notifications = <<>>
    /\ expiryTimers = <<>>
    /\ localSearch = <<>>
    /\ debounced = <<>>
    /\ debounceTimers = {}
    /\ searchDep = NULL
    /\ inputAt = Epoch
    /\ visibleRange = [start |-> 0, end |-> InitialEnd]
    /\ scrollTop = 0
    /\ clientHeight \in {384}
    /\ listDep = NoDep
    /\ editingProduct = NULL
    /\ formData = NULL

(***************************************************************************)
(* The clock.                                                              *)
(***************************************************************************)
Tick(d) ==
    /\ now' = now + d
    /\ UNCHANGED <<storeVars, notifyVars, searchVars, listVars, modalVars>>

(***************************************************************************)
(* ProductProvider: the effect that loads the products, and its cleanup.   *)
(***************************************************************************)
\* The effect runs: fetchProducts dispatches SET_LOADING and awaits the timer.
FetchProducts ==
    /\ loadPc = "mount"
    /\ state' = productReducer(state, Action("SET_LOADING", TRUE))
    /\ loadPc' = "waiting"
    /\ loadDeadline' = now + LoadDelay
    /\ UNCHANGED <<aborted, now, notifyVars, searchVars, listVars, modalVars>>

\* A variant that commits the products without looking at the abort signal.
CommittedUnchecked(seed) ==
    productReducer(state, Action("SET_PRODUCTS", generateMockProducts(seed)))

\* The awaited timer has run: fetchProducts resumes after the await.
Committed(seed) ==
    IF ~aborted
    THEN productReducer(state, Action("SET_PRODUCTS", generateMockProducts(seed)))
    ELSE state

FetchResume ==
    /\ loadPc = "waiting"
    /\ now >= loadDeadline
    /\ \E seed \in MockSeeds : state' = Committed(seed)
    /\ loadPc' = "done"
    /\ UNCHANGED <<loadDeadline, aborted, now, notifyVars, searchVars, listVars,
                   modalVars>>

\* A variant of the cleanup that clears nothing.
clearNothing(timers) == timers

\* useDebounce's cleanup (line 236) clears the timer its effect set; every
\* timer set before that one has run or was cleared by an earlier cleanup.
clearTimeout(timers) == {}

\* The provider is unmounted: the effect's cleanup aborts the controller, and
\* useDebounce's cleanup clears its timer.
Teardown ==
    /\ loadPc # "mount"
    /\ ~aborted
    /\ aborted' = TRUE
    /\ debounceTimers' = clearTimeout(debounceTimers)
    /\ UNCHANGED <<state, loadPc, loadDeadline, now, notifyVars, localSearch,
                   debounced, searchDep, inputAt, listVars, modalVars>>

\* ProductDashboard renders its main view (lines 492-513), and the tree is mounted.
ViewShown == ~aborted /\ ~state.loading /\ state.error = NULL

(***************************************************************************)
(* The store's actions as any consumer of the context may dispatch them.   *)
(***************************************************************************)
Widget == <<"W","i","d","g","e","t">>
Gadget == <<"G","a","d","g","e","t">>

AddPayloads ==
    {[id |-> 0, name |-> Widget, category |-> Books, price |-> 25, stock |-> 0,
      status |-> "out-of-stock", sales |-> 0, rating |-> 45],
     [id |-> 1, name |-> Gadget, category |-> Home, price |-> 300, stock |-> 7,
      status |-> "active", sales |-> 12, rating |-> 20]}

Ids(products) == {products[k].id : k \in 1..Len(products)}

\* Identifiers the dispatched actions are about: two generated products, and
\* every product that was added.
TargetIds == {1, MockCount} \cup {i \in Ids(state.products) : i > MockCount}

UpdatePayloads ==
    {[id |-> i, name |-> Gadget, category |-> Home, price |-> 99, stock |-> s,
      status |-> "active", sales |-> 3, rating |-> 50] : i \in TargetIds, s \in {0}}

FilterInputs == {All, Books}

SearchInputs == {<<>>, <<"p","r","o","d","u","c","t"," ","5">>}

Dispatch(action) ==
    /\ ViewShown
    /\ state' = productReducer(state, action)
    /\ UNCHANGED <<loadPc, loadDeadline, aborted, now, notifyVars, searchVars,
                   listVars, modalVars>>

Added(products) == {k \in 1..Len(products) : products[k].id >= Epoch}

DispatchAdd ==
    /\ Cardinality(Added(state.products)) < MaxAdds
    /\ \E p \in AddPayloads : Dispatch(Action("ADD_PRODUCT", p))

DispatchUpdate == \E p \in UpdatePayloads : Dispatch(Action("UPDATE_PRODUCT", p))

DispatchDelete == \E i \in TargetIds : Dispatch(Action("DELETE_PRODUCT", i))

DispatchFilter == \E c \in FilterInputs : Dispatch(Action("SET_FILTER", c))

DispatchSearch == \E t \in SearchInputs : Dispatch(Action("SET_SEARCH", t))

StoreTicks == {LoadDelay}

StoreTick == \E d \in StoreTicks : now + d <= Epoch + StoreElapsed /\ Tick(d)

Next ==
    \/ FetchProducts
    \/ FetchResume
    \/ Teardown
    \/ StoreTick
    \/ DispatchAdd
    \/ DispatchUpdate
    \/ DispatchDelete
    \/ DispatchFilter
    \/ DispatchSearch

Spec == Init /\ [][Next]_vars

(***************************************************************************)
(* ProductDashboard's filteredProducts, and the virtualized list.          *)
(***************************************************************************)
Min(a, b) == IF a < b THEN a ELSE b
Max(a, b) == IF a > b THEN a ELSE b
Floor(a, b) == a \div b
Ceil(a, b) == (a + b - 1) \div b

Matches(p, filter, searchTerm) ==
    LET matchesFilter == filter = All \/ p.category = filter
        matchesSearch ==
            \/ includes(toLowerCase(p.name), toLowerCase(searchTerm))
            \/ includes(toLowerCase(p.category), toLowerCase(searchTerm))
    IN  matchesFilter /\ matchesSearch

filteredProducts ==
    SelectSeq(state.products, LAMBDA p : Matches(p, state.filter, state.searchTerm))

\* Array.prototype.slice(start, end) for start, end >= 0.
slice(s, start, end) ==
    LET from == Min(start, Len(s))
        to == Min(end, Len(s))
    IN  IF from >= to THEN <<>> ELSE SubSeq(s, from + 1, to)

\* What VirtualProductList renders (lines 366-379).
visibleProducts == slice(filteredProducts, visibleRange.start, visibleRange.end)
topSpacer == visibleRange.start * 100
bottomSpacer == (Len(filteredProducts) - visibleRange.end) * 100

\* The layout of the rendered content, every row itemHeight high; a negative
\* height is no valid CSS height and takes no room.
contentHeight ==
    Max(topSpacer, 0) + (Len(visibleProducts) * itemHeight) + Max(bottomSpacer, 0)

\* handleScroll (lines 347-355); length is products.length of the render
\* whose effect made the handler.
ComputeRange(top, height, length) ==
    LET start == Floor(top, itemHeight)
        end == Min(start + Ceil(height, itemHeight) + Overscan, length)
    IN  [start |-> start, end |-> end]

handleScroll(length) ==
    visibleRange' = ComputeRange(scrollTop', clientHeight', length)

\* The list's effect runs after a render in which products.length changed
\* (and after the first render): it listens to scroll and calls handleScroll.
ListEffect ==
    /\ ViewShown
    /\ listDep # Len(filteredProducts)
    /\ listDep' = Len(filteredProducts)
    /\ UNCHANGED <<scrollTop, clientHeight>>
    /\ handleScroll(Len(filteredProducts))
    /\ UNCHANGED <<storeVars, now, notifyVars, searchVars, modalVars>>

ScrollOffsets == {0, 150, 4800}

\* The user scrolls the container, as far as its content allows.
Scroll(top) ==
    /\ ViewShown
    /\ listDep # NoDep
    /\ top # scrollTop
    /\ top <= Max(contentHeight - clientHeight, 0)
    /\ scrollTop' = top
    /\ UNCHANGED <<clientHeight, listDep>>
    /\ handleScroll(listDep)
    /\ UNCHANGED <<storeVars, now, notifyVars, searchVars, modalVars>>

ClientHeights == {384, 250}

\* The container is resized; nothing listens to that.
Resize(height) ==
    /\ ViewShown
    /\ height # clientHeight
    /\ clientHeight' = height
    /\ UNCHANGED <<visibleRange, scrollTop, listDep>>
    /\ UNCHANGED <<storeVars, now, notifyVars, searchVars, modalVars>>

\* React runs the effects of a committed render before it renders the next
\* update, so no action is dispatched into the store while the list's effect
\* is still to run.
ListEffectPending == ViewShown /\ listDep # Len(filteredProducts)

ListNext ==
    \/ FetchProducts
    \/ FetchResume
    \/ StoreTick
    \/ ~ListEffectPending /\ DispatchDelete
    \/ ~ListEffectPending /\ DispatchFilter
    \/ ~ListEffectPending /\ DispatchSearch
    \/ ListEffect
    \/ \E top \in ScrollOffsets : Scroll(top)
    \/ \E height \in ClientHeights : Resize(height)

ListSpec == Init /\ [][ListNext]_vars

\* C1: the top spacer, the rendered rows and the bottom spacer add up to the
\* height of all N rows of the filtered sequence, whenever the list is rendered.
C1_RenderedHeightIsTotal ==
    ViewShown =>
        topSpacer + (Len(visibleProducts) * 100) + bottomSpacer
            = Len(filteredProducts) * 100

\* C11: once the list is rendered and its effect has run, the window is the one
\* computed from the current scroll offset, client height and N: a resize or
\* a change of the filtered sequence leaves no stale window behind.
C11_WindowIsCurrent ==
    (ViewShown /\ ~ListEffectPending) =>
        visibleRange =
            ComputeRange(scrollTop, clientHeight, Len(filteredProducts))

(***************************************************************************)
(* NotificationProvider.                                                   *)
(***************************************************************************)
\* prev.filter(n => n.id !== id), lines 195 and 200.
WithoutId(queue, id) == SelectSeq(queue, LAMBDA n : n.id # id)

\* A variant of addNotification that sets no expiry timer.
SetNoExpiry(id) == expiryTimers

\* setTimeout(..., 5000) of addNotification (lines 194-196).
SetExpiry(id) ==
    Append(expiryTimers, [id |-> id, deadline |-> now + NotificationDelay])

addNotification(notification) ==
    LET id == now
    IN  /\ notifications' =
            Append(notifications,
                   [id |-> id, type |-> notification.type,
                    message |-> notification.message])
        /\ expiryTimers' = SetExpiry(id)

\* The user clicks the X of a notification.
removeNotification(id) ==
    /\ ~aborted
    /\ \E k \in 1..Len(notifications) : notifications[k].id = id
    /\ notifications' = WithoutId(notifications, id)
    /\ UNCHANGED <<storeVars, now, expiryTimers, searchVars, listVars, modalVars>>

\* The timer of an enqueued notification runs.
Expire(k) ==
    /\ k \in 1..Len(expiryTimers)
    /\ now >= expiryTimers[k].deadline
    /\ notifications' = WithoutId(notifications, expiryTimers[k].id)
    /\ expiryTimers' =
        SubSeq(expiryTimers, 1, k - 1) \o SubSeq(expiryTimers, k + 1, Len(expiryTimers))
    /\ UNCHANGED <<storeVars, now, searchVars, listVars, modalVars>>

(***************************************************************************)
(* ProductDashboard's handlers and ProductEditModal.                       *)
(***************************************************************************)
\* The rows a click can land on: generated products 1 and 2, while rendered.
ClickIds == {1, 2}

Clickable ==
    LET rows == visibleProducts
    IN  {rows[k] : k \in {j \in 1..Len(rows) : rows[j].id \in ClickIds}}

\* Notifications, and the timers behind them, stay within the bounds of the model.
CanNotify ==
    /\ Len(expiryTimers) < MaxNotifications
    /\ now + NotificationDelay <= Epoch + DashElapsed

handleEdit(product) ==
    /\ ViewShown
    /\ editingProduct' = product
    /\ formData' = IF editingProduct = NULL THEN product ELSE formData
    /\ UNCHANGED <<storeVars, now, notifyVars, searchVars, listVars>>

\* The name field of the modal is edited.
ChangeName(name) ==
    /\ ViewShown
    /\ editingProduct # NULL
    /\ formData.name # name
    /\ formData' = [formData EXCEPT !.name = name]
    /\ UNCHANGED <<storeVars, now, notifyVars, searchVars, listVars, editingProduct>>

onClose ==
    /\ ViewShown
    /\ editingProduct # NULL
    /\ editingProduct' = NULL
    /\ formData' = NULL
    /\ UNCHANGED <<storeVars, now, notifyVars, searchVars, listVars>>

handleDelete(id) ==
    /\ ViewShown
    /\ CanNotify
    /\ state' = productReducer(state, Action("DELETE_PRODUCT", id))
    /\ addNotification([type |-> "success", message |-> "Product deleted successfully"])
    /\ UNCHANGED <<loadPc, loadDeadline, aborted, now, searchVars, listVars, modalVars>>

\* handleSubmit of the modal: onSave(formData), which is handleSave.
handleSave ==
    /\ ViewShown
    /\ CanNotify
    /\ editingProduct # NULL
    /\ state' = productReducer(state, Action("UPDATE_PRODUCT", formData))
    /\ editingProduct' = NULL
    /\ formData' = NULL
    /\ addNotification([type |-> "success", message |-> "Product updated successfully"])
    /\ UNCHANGED <<loadPc, loadDeadline, aborted, now, searchVars, listVars>>

DashTicks == {LoadDelay, NotificationDelay}

DashTick == \E d \in DashTicks : now + d <= Epoch + DashElapsed /\ Tick(d)

Expiry == \E k \in 1..Len(expiryTimers) : Expire(k)

DashNext ==
    \/ FetchProducts
    \/ FetchResume
    \/ DashTick
    \/ \E p \in Clickable : handleEdit(p)
    \/ ChangeName(Gadget)
    \/ onClose
    \/ \E p \in Clickable : handleDelete(p.id)
    \/ handleSave
    \/ \E n \in 1..Len(notifications) : removeNotification(notifications[n].id)
    \/ Expiry

\* Time passes, and the event loop runs every timer that is due.
DashboardSpec ==
    /\ Init
    /\ [][DashNext]_vars
    /\ WF_vars(DashTick)
    /\ WF_vars(Expiry)

\* C7: no two notifications of the queue have the same id.
C7_NotificationIdsUnique ==
    \A j, k \in 1..Len(notifications) :
        j # k => notifications[j].id # notifications[k].id

\* The readings of the clock at which a notification can be enqueued: after
\* the load, and early enough for its timer to run within the time followed.
Stamps ==
    {Epoch + (k * LoadDelay) :
        k \in 1..((DashElapsed - NotificationDelay) \div LoadDelay)}

InQueue(id) == \E k \in 1..Len(notifications) : notifications[k].id = id

\* C8: every enqueued notification is eventually absent from the queue.
C8_EveryNotificationLeaves ==
    /\ [](\A k \in 1..Len(notifications) : notifications[k].id \in Stamps)
    /\ \A id \in Stamps : [](InQueue(id) => <>(~InQueue(id)))

\* A product was deleted, so a notification was enqueued; its timer has run
\* and the queue is empty.
C8_Witness ==
    /\ ViewShown
    /\ 1 \notin Ids(state.products)
    /\ notifications = <<>>
    /\ expiryTimers = <<>>

(***************************************************************************)
(* SearchAndFilter and useDebounce.                                        *)
(***************************************************************************)
TypedInputs ==
    {<<>>, <<"p","r","o","d","u","c","t"," ","5">>, <<"B","O","O","K">>}

\* setTimeout(() => setDebounced(value), delay), line 235.
SetDebounce(timers, value) ==
    timers \cup {[value |-> value, deadline |-> now + DebounceDelay]}

\* The first render of SearchAndFilter and its effects: useDebounce sets its
\* timer, and the effect of lines 424-426 dispatches the initial value.
SearchMount ==
    /\ ViewShown
    /\ searchDep = NULL
    /\ localSearch' = state.searchTerm
    /\ debounced' = state.searchTerm
    /\ inputAt' = now
    /\ debounceTimers' = SetDebounce(debounceTimers, state.searchTerm)
    /\ searchDep' = [value |-> state.searchTerm]
    /\ state' = productReducer(state, Action("SET_SEARCH", state.searchTerm))
    /\ UNCHANGED <<loadPc, loadDeadline, aborted, now, notifyVars, listVars, modalVars>>

\* The effect of lines 424-426 is still to run for the current debouncedSearch.
SearchEffectPending == searchDep # NULL /\ searchDep.value # debounced

\* onChange of the input: the render runs useDebounce's cleanup and effect.
ChangeSearch(value) ==
    /\ ViewShown
    /\ searchDep # NULL
    /\ ~SearchEffectPending
    /\ value # localSearch
    /\ localSearch' = value
    /\ inputAt' = now
    /\ debounceTimers' = SetDebounce(clearTimeout(debounceTimers), value)
    /\ UNCHANGED <<storeVars, now, notifyVars, debounced, searchDep, listVars,
                   modalVars>>

\* A timer of useDebounce runs: setDebounced(value).
DebounceFire(timer) ==
    /\ ~aborted
    /\ timer \in debounceTimers
    /\ now >= timer.deadline
    /\ debounced' = timer.value
    /\ debounceTimers' = debounceTimers \ {timer}
    /\ UNCHANGED <<storeVars, now, notifyVars, localSearch, searchDep, inputAt,
                   listVars, modalVars>>

\* The effect of lines 424-426 runs after debouncedSearch changed.
SearchEffect ==
    /\ ViewShown
    /\ SearchEffectPending
    /\ state' = productReducer(state, Action("SET_SEARCH", debounced))
    /\ searchDep' = [value |-> debounced]
    /\ UNCHANGED <<loadPc, loadDeadline, aborted, now, notifyVars, localSearch,
                   debounced, debounceTimers, inputAt, listVars, modalVars>>

SearchTicks == {150, LoadDelay}

SearchTick == \E d \in SearchTicks : now + d <= Epoch + SearchElapsed /\ Tick(d)

SearchNext ==
    \/ FetchProducts
    \/ FetchResume
    \/ SearchTick
    \/ SearchMount
    \/ \E value \in TypedInputs : ChangeSearch(value)
    \/ \E timer \in debounceTimers : DebounceFire(timer)
    \/ SearchEffect

SearchSpec == Init /\ [][SearchNext]_vars

\* C10: SET_SEARCH is dispatched, and the store's search term and the
\* debounced value are written, only with the value that is the current input
\* and has been for a quiet period of 300 ms; a value that a newer input
\* superseded before its timer ran is never written.
C10_OnlyQuietInputIsDispatched ==
    [][/\ (SearchEffect \/ state'.searchTerm # state.searchTerm) =>
            /\ state'.searchTerm = localSearch'
            /\ now' >= inputAt' + 300
       /\ debounced' # debounced =>
            /\ debounced' = localSearch'
            /\ now' >= inputAt' + 300]_vars

\* A typed value was written to the store after its quiet period.
C10_Witness ==
    /\ state.searchTerm # <<>>
    /\ state.searchTerm = localSearch
    /\ now >= inputAt + 300

(***************************************************************************)
(* AnalyticsDashboard: the analytics memo.  A JavaScript division by zero  *)
(* yields NaN (0 / 0), which toFixed prints as "NaN".                      *)
(***************************************************************************)
RECURSIVE Sum(_, _)
Sum(products, field) ==
    IF Len(products) = 0 THEN 0
    ELSE Head(products)[field] + Sum(Tail(products), field)

\* (sum / count).toFixed(1), with the ratings and the result in tenths.
MeanToFixed(sum, count) ==
    IF count = 0 THEN NaN ELSE ((2 * sum) + count) \div (2 * count)

Computed(products) ==
    [totalProducts |-> Len(products),
     totalSales |-> Sum(products, "sales"),
     averageRating |-> MeanToFixed(Sum(products, "rating"), Len(products)),
     outOfStock |-> Cardinality({k \in 1..Len(products) : products[k].stock = 0})]

\* A variant without the guard on the empty collection.
analyticsUnguarded(products) == Computed(products)

analytics(products) ==
    IF Len(products) = 0 THEN NULL ELSE Computed(products)

\* The first product of the collection is deleted.
DeleteTop ==
    /\ state.products # <<>>
    /\ Dispatch(Action("DELETE_PRODUCT", state.products[1].id))

\* The store as the analytics see it: products are added, and deleted one
\* after the other until none is left.
AnalyticsNext ==
    \/ FetchProducts
    \/ FetchResume
    \/ StoreTick
    \/ DispatchAdd
    \/ DeleteTop

AnalyticsSpec == Init /\ [][AnalyticsNext]_vars

(***************************************************************************)
(* Claims about the store.                                                 *)
(***************************************************************************)
Last(s) == s[Len(s)]

\* C2: every ADD_PRODUCT makes the collection one longer, and the identifier
\* of the new entry is the identifier of no entry of the prior collection.
C2_AddAssignsFreshId ==
    [][\A p \in AddPayloads :
        Dispatch(Action("ADD_PRODUCT", p)) =>
            /\ Len(state'.products) = Len(state.products) + 1
            /\ Last(state'.products).id \notin Ids(state.products)]_vars

\* C3: no two products of the collection have the same identifier.
C3_IdsUnique ==
    \A j, k \in 1..Len(state.products) :
        j # k => state.products[j].id # state.products[k].id

\* C4: an UPDATE_PRODUCT whose payload has the identifier of an entry replaces
\* exactly that one entry by the payload: the length is unchanged, and every
\* other entry is unchanged and at its position.
C4_UpdateReplacesOne ==
    [][\A p \in UpdatePayloads :
        (p.id \in Ids(state.products) /\ Dispatch(Action("UPDATE_PRODUCT", p))) =>
            /\ Len(state'.products) = Len(state.products)
            /\ \E k \in 1..Len(state.products) :
                    /\ state.products[k].id = p.id
                    /\ state'.products[k] = p
                    /\ \A j \in 1..Len(state.products) :
                            j # k => state'.products[j] = state.products[j]]_vars

\* C5: after DELETE_PRODUCT(id), for an id that was in the collection, no entry
\* of the collection has that id.
C5_DeletedIsAbsent ==
    [][\A i \in TargetIds :
        (i \in Ids(state.products) /\ Dispatch(Action("DELETE_PRODUCT", i))) =>
            i \notin Ids(state'.products)]_vars

\* A delete has removed the generated product 1 while others remain.
C5_Witness ==
    /\ ViewShown
    /\ 1 \notin Ids(state.products)
    /\ state.products # <<>>

\* The load was cancelled while its timer was still awaited.
CancelledEarly == aborted /\ loadPc = "waiting"

\* C6: once the provider is torn down before the load's completion has run,
\* the store keeps loading = true and an empty collection for ever, also
\* after the delayed completion runs.
C6_CancelledLoadCommitsNothing ==
    [](CancelledEarly => [](state.loading /\ state.products = <<>>))

\* The completion of a cancelled load has run, and committed nothing.
C6_Witness ==
    /\ aborted
    /\ loadPc = "done"
    /\ state.loading
    /\ state.products = <<>>

\* C9: on an empty collection the analytics are the "no data" result, and no
\* analytics the view is given holds the NaN of a division by zero.
C9_EmptyAnalyticsIsNoData ==
    /\ state.products = <<>> => analytics(state.products) = NULL
    /\ analytics(state.products) # NULL =>
            analytics(state.products).averageRating # NaN

\* Every product has been deleted after the load.
C9_Witness ==
    /\ ViewShown
    /\ state.products = <<>>
    /\ analytics(state.products) = NULL

OnlyFilterChanged(s, t) ==
    /\ t.products = s.products
    /\ t.loading = s.loading
    /\ t.error = s.error
    /\ t.searchTerm = s.searchTerm

OnlySearchChanged(s, t) ==
    /\ t.products = s.products
    /\ t.loading = s.loading
    /\ t.error = s.error
    /\ t.filter = s.filter

\* C12: SET_FILTER replaces the filter and SET_SEARCH replaces the search term,
\* and each leaves every other field of the store as it was: in every store
\* state for the reducer, and in every step that dispatches one of the two.
C12_FilterAndSearchFrame ==
    [][/\ \A c \in FilterInputs :
            LET t == productReducer(state, Action("SET_FILTER", c))
            IN  t.filter = c /\ OnlyFilterChanged(state, t)
       /\ \A term \in SearchInputs :
            LET t == productReducer(state, Action("SET_SEARCH", term))
            IN  t.searchTerm = term /\ OnlySearchChanged(state, t)
       /\ DispatchFilter => OnlyFilterChanged(state, state')
       /\ DispatchSearch => OnlySearchChanged(state, state')]_vars

\* Both fields were set over a loaded collection.
C12_Witness ==
    /\ state.filter = Books
    /\ Len(state.searchTerm) > 0
    /\ Len(state.products) > 0

(***************************************************************************)
(* The edit modal next to the rows' Delete buttons.                        *)
(***************************************************************************)
\* The rows whose Edit button is clicked: the first generated product.
ModalEdits == {p \in Clickable : p.id = 1}

ModalNext ==
    \/ FetchProducts
    \/ FetchResume
    \/ DashTick
    \/ \E p \in ModalEdits : handleEdit(p)
    \/ ChangeName(Gadget)
    \/ onClose
    \/ \E p \in Clickable : handleDelete(p.id)
    \/ handleSave
    \/ DispatchFilter
    \/ DispatchSearch
    \/ Expiry

ModalSpec == Init /\ [][ModalNext]_vars

AbsentAfter(id, action) ==
    id \notin Ids(productReducer(state, action).products)

\* The actions that may follow the deletion of id leave it absent: an update
\* that carries id, deletions, and changes of the filter and the search term.
AbsentAfterLater(id) ==
    /\ \A p \in AddPayloads :
            AbsentAfter(id, Action("UPDATE_PRODUCT", [p EXCEPT !.id = id]))
    /\ \A i \in ClickIds : AbsentAfter(id, Action("DELETE_PRODUCT", i))
    /\ \A c \in FilterInputs : AbsentAfter(id, Action("SET_FILTER", c))
    /\ \A t \in SearchInputs : AbsentAfter(id, Action("SET_SEARCH", t))

\* C13: an identifier that DELETE_PRODUCT removed from the loaded collection is
\* in the collection after no later step and after no update, deletion,
\* filter or search action applied to the store; saving the edit modal of a
\* product that was deleted meanwhile leaves the collection as it is.
C13_DeletedStaysDeleted ==
    [][LET before == Ids(state.products)
           gone == (1..MockCount) \ before
       IN  /\ ViewShown => gone \cap Ids(state'.products) = {}
           /\ ViewShown =>
                \A id \in ClickIds \cap gone : AbsentAfterLater(id)
           /\ (handleSave /\ formData.id \notin before) =>
                state'.products = state.products]_vars

\* Product 1, the only one whose modal is opened, is deleted, and the save of
\* its modal is the last operation that enqueued a notification.
C13_Witness ==
    /\ ViewShown
    /\ 1 \notin Ids(state.products)
    /\ editingProduct = NULL
    /\ Len(notifications) > 0
    /\ Len(expiryTimers) > 0
    /\ Last(notifications).message = "Product updated successfully"
    /\ Last(expiryTimers).id = Last(notifications).id
    /\ now < Last(expiryTimers).deadline
    /\ \A k \in 1..(Len(notifications) - 1) :
            notifications[k].id < Last(notifications).id

====
